---- MODULE Spec2Model ----
(***************************************************************************)
(* The Editor component of src/src/components/editor.js: the plugin stack, *)
(* the schema resolved from it, the before-change chain run on a state the *)
(* host supplies, the change chain and its notifications, and the dispatch *)
(* of the mixed-in event handlers.                                         *)
(*                                                                         *)
(* Plugin hooks, plugin event handlers and the host callbacks are code of  *)
(* the environment.  A step of the model runs the component's code from    *)
(* one call of a plugin function to the next one (or to the return of the  *)
(* method the host called); pc names the plugin function the component is  *)
(* waiting for, "idle" when no method is executing.  What a plugin         *)
(* function returns (a State, nothing, or an exception) is chosen by the   *)
(* environment at each call.                                               *)
(*                                                                         *)
(* Objects are compared by reference in the source (==, !=), so a State is *)
(* modelled by the identity of its instance, and so are its document and   *)
(* its selection, the plugins array and the schema object of the props.    *)
(***************************************************************************)
EXTENDS Integers, Sequences, FiniteSets, TLC

(***************************************************************************)
(* Bounds of the model.                                                    *)
(***************************************************************************)
\* State instances 0 .. MaxSnap-1.
MaxSnap == 3
\* References of plugins arrays the host can pass, 0 .. MaxListRef-1.
MaxListRef == 2
\* References of schema objects the host can pass, 0 .. MaxSchemaRef-1.
MaxSchemaRef == 2
\* How many calls of the editor's methods may be suspended at a time, each
\* inside a plugin function or a callback that called the editor again.
MaxDepth == 1

(***************************************************************************)
(* Values.                                                                 *)
(***************************************************************************)
\* `undefined`: this.state.state and this.tmp.* before the constructor sets them.
Undefined == -1

\* A hook or handler that returns null / undefined.
NoResult == -2

\* A hook that throws.
Throw == -3

Snapshots == 0 .. (MaxSnap - 1)

\* state.document: the instance of the document a State instance holds.
\* Distinct State instances may share a document (a transform that only
\* moves the selection) or a selection.
DocOf(s) == s % 2

\* state.selection: the instance of the selection a State instance holds.
SelOf(s) == (s \div 2) % 2

EVENT_HANDLERS ==
  << "onBeforeInput", "onBlur", "onCopy", "onCut",
     "onDrop", "onKeyDown", "onPaste", "onSelect" >>

AllEvents == { EVENT_HANDLERS[k] : k \in 1 .. Len(EVENT_HANDLERS) }

\* The event names the model dispatches.
Events == {"onBeforeInput", "onBlur"}

(***************************************************************************)
(* Schema fragments and Schema.create.                                     *)
(***************************************************************************)
NoRules == << >>

\* A schema fragment: explicit rules, and node types in shorthand.
Fragment(rules, nodes) == [rules |-> rules, nodes |-> nodes]

EmptyFragment == Fragment(NoRules, NoRules)

\* Schema.create(fragment).rules: the explicit rules, then one rule per
\* shorthand node type (a rule is a number; the rule made for node type n
\* is 100 + n).
SchemaCreate(fragment) ==
  [rules |-> fragment.rules \o
             [k \in 1 .. Len(fragment.nodes) |-> 100 + fragment.nodes[k]]]

\* The schema object behind a reference the host passes as props.schema.
\* Reference 0 is the `{}` of defaultProps; reference 1 holds rule 1, the
\* rule plugin A declares too; the others a node type in shorthand.
SchemaObject(ref) ==
  IF ref = 0 THEN EmptyFragment
  ELSE IF ref = 1 THEN Fragment(<<1>>, NoRules)
  ELSE Fragment(NoRules, <<ref>>)

(***************************************************************************)
(* Plugins.                                                                *)
(***************************************************************************)
\* A plugin object: which properties it has.  What its functions return is
\* chosen when they are called.
Plugin(name, hasSchema, fragment, before, change, handlers) ==
  [name |-> name, hasSchema |-> hasSchema, schema |-> fragment,
   onBeforeChange |-> before, onChange |-> change, handlers |-> handlers]

\* User plugin A: schema [rule 1], an onChange hook, an onBeforeInput handler.
PluginA ==
  Plugin("A", TRUE, Fragment(<<1>>, NoRules), FALSE, TRUE, {"onBeforeInput"})

\* User plugin B: no schema, both hooks, an onBlur handler.
PluginB ==
  Plugin("B", FALSE, EmptyFragment, TRUE, TRUE, {"onBlur"})

\* The plugins array behind a reference the host passes as props.plugins.
\* Reference 0 is the `[]` of defaultProps.
PluginsArray(ref) ==
  IF ref = 0 THEN << >>
  ELSE IF ref % 2 = 1 THEN <<PluginA, PluginB>>
  ELSE <<PluginB, PluginA>>

\* CorePlugin(props): schema [rule 2], an onBeforeChange hook and a handler
\* for every event name.
CorePlugin(p) ==
  Plugin("core", TRUE, Fragment(<<2>>, NoRules), TRUE, FALSE, AllEvents)

\* The props the host can pass: the plugins array, the schema object and
\* the state.  The host always passes an onBlur handler and the three
\* callbacks, and never an onBeforeChange.
PropsSet ==
  [plugins : 0 .. (MaxListRef - 1),
   schema  : 0 .. (MaxSchemaRef - 1),
   state   : Snapshots]

\* this.props, as far as the component reads it again: props.plugins and
\* props.schema are compared with those of the next props.
PropsRead(p) == [plugins |-> p.plugins, schema |-> p.schema]

\* const { onChange, plugins, ...editorPlugin } = props: the schema object
\* and the onBlur handler stay, onChange does not.
EditorPlugin(p) ==
  Plugin("editor", TRUE, SchemaObject(p.schema), FALSE, FALSE, {"onBlur"})

\* The core plugin is put before the user's plugins.
ResolvePluginsCoreFirst(p) ==
  <<EditorPlugin(p), CorePlugin(p)>> \o PluginsArray(p.plugins)

resolvePlugins(p) ==
  <<EditorPlugin(p)>> \o PluginsArray(p.plugins) \o <<CorePlugin(p)>>

\* plugin[name], as a truth value.
Has(plugin, name) ==
  CASE name = "schema"         -> plugin.hasSchema
    [] name = "onBeforeChange" -> plugin.onBeforeChange
    [] name = "onChange"       -> plugin.onChange
    [] OTHER                   -> name \in plugin.handlers

RECURSIVE ResolveRulesFrom(_, _)
\* The loop of resolveSchema from plugin k on: the rules it concatenates.
ResolveRulesFrom(pl, k) ==
  IF k > Len(pl) THEN NoRules
  ELSE IF ~Has(pl[k], "schema") THEN ResolveRulesFrom(pl, k + 1)
  ELSE SchemaCreate(pl[k].schema).rules \o ResolveRulesFrom(pl, k + 1)

RECURSIVE ResolveRulesDedup(_, _)
\* A rule that a later plugin declares again is dropped.
ResolveRulesDedup(pl, k) ==
  IF k > Len(pl) THEN NoRules
  ELSE IF ~Has(pl[k], "schema") THEN ResolveRulesDedup(pl, k + 1)
  ELSE LET rest == ResolveRulesDedup(pl, k + 1)
           seen == { rest[j] : j \in 1 .. Len(rest) }
       IN  SelectSeq(SchemaCreate(pl[k].schema).rules, LAMBDA r : r \notin seen)
           \o rest

ResolveSchemaDedup(pl) == SchemaCreate(Fragment(ResolveRulesDedup(pl, 1), NoRules))

resolveSchema(pl) == SchemaCreate(Fragment(ResolveRulesFrom(pl, 1), NoRules))

\* The first plugin at or after position `from` that has property `name`,
\* 0 when there is none: `for (const plugin of plugins) { if (!plugin[name]) continue`.
NextWith(pl, from, name) ==
  LET S == { k \in from .. Len(pl) : Has(pl[k], name) }
  IN  IF S = {} THEN 0 ELSE CHOOSE k \in S : \A j \in S : k <= j


(***************************************************************************)
(* The component.                                                          *)
(***************************************************************************)
VARIABLES
  props,      \* this.props
  plugins,    \* this.state.plugins
  schema,     \* this.state.schema
  state,      \* this.state.state
  tmp,        \* this.tmp: the cached document and selection
  pc,         \* the plugin function being executed, or "idle"
  i,          \* the position in this.state.plugins of the plugin being called
  running,    \* the local `state` of onBeforeChange / onChange
  pending,    \* componentWillReceiveProps: the props received, and the
              \* plugins and schema handed to setState, applied when it returns
  op,         \* the method the host called last: its name and arguments
  calls,      \* the plugin functions called by it so far, with input and result
  commits,    \* the states passed to onChange by it so far
  callbacks,  \* the host callbacks called by it so far, with arguments
  thrown,     \* whether it ended with an exception
  stack,      \* the calls suspended inside a plugin function or a callback
  last        \* the State last passed to props.onChange or kept by setState

vars ==
  << props, plugins, schema, state, tmp, pc, i, running, pending,
     op, calls, commits, callbacks, thrown, stack, last >>

Component == << props, plugins, schema, state, tmp >>

\* No plugin function or callback calls the editor: nothing is suspended.
NotNested == UNCHANGED << stack, last >>

NoCache == [document |-> Undefined, selection |-> Undefined]

\* cacheState(state): the value of this.tmp after it.
cacheState(s) == [document |-> DocOf(s), selection |-> SelOf(s)]

Called(j, hook, input, result) ==
  [plugin |-> j, hook |-> hook, input |-> input, result |-> result]

Callback(name, args) == [name |-> name, args |-> args]

Method(name, arg, event) == [name |-> name, arg |-> arg, event |-> event]

\* The hook's result is dropped.
ThreadDropsResult(run, newState) == run

\* `if (newState == null) continue; state = newState`
Thread(run, newState) == IF newState = NoResult THEN run ELSE newState

\* The early return is missing.
OnBeforeChangeAlwaysRuns(s, current) == FALSE

\* `if (state == this.state.state) return state` of onBeforeChange.
OnBeforeChangeReturnsEarly(s, current) == s = current

\* The early return is missing.
OnChangeAlwaysRuns(s, current) == FALSE

\* `if (state == this.state.state) return` of onChange.
OnChangeReturnsEarly(s, current) == s = current

\* Every result is taken for no result: the loop never breaks.
HandlerAlwaysDeclines(newState) == TRUE

\* A handler that returns this.state.state is taken to have declined.
HandlerDeclinesCurrentState(newState) == newState = NoResult \/ newState = state

\* `if (!newState) continue` of onEvent: a State is truthy.
HandlerDeclines(newState) == newState = NoResult

\* The document is compared with that of this.state.state, not the cache.
DocumentChangedSinceState(final, cache) == DocOf(final) # DocOf(state)

\* `state.document != this.tmp.document`
DocumentChanged(final, cache) == DocOf(final) # cache.document

\* The documents are compared a second time, in place of the selections.
SelectionChangedComparesDocuments(final, cache) == DocOf(final) # cache.document

\* `state.selection != this.tmp.selection`
SelectionChanged(final, cache) == SelOf(final) # cache.selection

\* onSelectionChange is called before onChange and onDocumentChange.
NotificationsSelectionFirst(final, cache) ==
  (IF SelectionChanged(final, cache)
   THEN << Callback("onSelectionChange", <<SelOf(final), final>>) >>
   ELSE << >>)
  \o << Callback("onChange", <<final>>) >>
  \o (IF DocumentChanged(final, cache)
      THEN << Callback("onDocumentChange", <<DocOf(final), final>>) >>
      ELSE << >>)

\* The host callbacks onChange calls once its loop is over, in order.
Notifications(final, cache) ==
  << Callback("onChange", <<final>>) >>
  \o (IF DocumentChanged(final, cache)
      THEN << Callback("onDocumentChange", <<DocOf(final), final>>) >>
      ELSE << >>)
  \o (IF SelectionChanged(final, cache)
      THEN << Callback("onSelectionChange", <<SelOf(final), final>>) >>
      ELSE << >>)

\* The method returns (or unwinds): no plugin function is executing.
Return == pc' = "idle" /\ i' = 0 /\ running' = Undefined

\* A method is entered: its log starts empty.
Enter(name, arg, event) ==
  /\ op' = Method(name, arg, event)
  /\ calls' = << >>
  /\ thrown' = FALSE
  /\ NotNested

\* What setState has been handed, when nothing is queued.
Current == [props |-> props, plugins |-> plugins, schema |-> schema]

\* The first branches of componentWillReceiveProps: the plugins and schema
\* handed to setState.  this.state keeps the old ones until the method returns.
Queued(p) ==
  IF p.plugins # props.plugins
  THEN LET pl == resolvePlugins(p)
       IN  [props |-> PropsRead(p), plugins |-> pl, schema |-> resolveSchema(pl)]
  ELSE IF p.schema # props.schema
  THEN [props |-> PropsRead(p), plugins |-> plugins, schema |-> resolveSchema(plugins)]
  ELSE [props |-> PropsRead(p), plugins |-> plugins, schema |-> schema]

\* The loop of onBeforeChange from position `from` with local state `run`:
\* up to the call of the next plugin's hook or, when no plugin is left, to
\* the end of the caller (cacheState, this.state.state and the queued
\* setState of componentWillReceiveProps).
BeforeChain(run, from) ==
  LET j == NextWith(plugins, from, "onBeforeChange")
  IN  IF j = 0
      THEN /\ state' = run
           /\ tmp' = cacheState(run)
           /\ props' = pending'.props
           /\ plugins' = pending'.plugins
           /\ schema' = pending'.schema
           /\ Return
      ELSE /\ pc' = "onBeforeChange"
           /\ i' = j
           /\ running' = run
           /\ UNCHANGED Component

\* The loop of onChange from position `from` with local state `run`: up to
\* the call of the next plugin's hook or, when no plugin is left, through
\* the callbacks and cacheState.
ChangeChain(run, from) ==
  LET j == NextWith(plugins, from, "onChange")
  IN  IF j = 0
      THEN /\ callbacks' = Notifications(run, tmp)
           /\ tmp' = cacheState(run)
           /\ Return
      ELSE /\ pc' = "onChange"
           /\ i' = j
           /\ running' = run
           /\ callbacks' = << >>
           /\ tmp' = tmp

\* onChange ends with this.setState({ state }).
EnterOnChangeSettingState(s) ==
  /\ commits' = <<s>>
  /\ IF OnChangeReturnsEarly(s, state)
     THEN callbacks' = << >> /\ tmp' = tmp /\ Return
     ELSE ChangeChain(s, 1)
  /\ state' = s
  /\ UNCHANGED << props, plugins, schema, pending >>

\* this.onChange(s) is called.
EnterOnChange(s) ==
  /\ commits' = <<s>>
  /\ IF OnChangeReturnsEarly(s, state)
     THEN callbacks' = << >> /\ tmp' = tmp /\ Return
     ELSE ChangeChain(s, 1)
  /\ UNCHANGED << props, plugins, schema, state, pending >>

\* state.transform().focus().apply() and .blur(): a new State instance
\* holding the same document and a new selection instance, one that neither
\* the State it was made from nor the cache holds.
TransformApply(s) ==
  { t \in Snapshots : /\ t # s
                      /\ DocOf(t) = DocOf(s)
                      /\ SelOf(t) \notin {SelOf(s), tmp.selection} }

(***************************************************************************)
(* The constructor, up to the first call of a plugin's onBeforeChange.     *)
(***************************************************************************)
Init ==
  \E p \in PropsSet :
    LET pl == resolvePlugins(p)
        j  == NextWith(pl, 1, "onBeforeChange")
    IN  /\ props = PropsRead(p)
        /\ plugins = pl
        /\ schema = resolveSchema(pl)
        /\ pending = [props |-> PropsRead(p), plugins |-> pl, schema |-> resolveSchema(pl)]
        /\ op = Method("constructor", p.state, "")
        /\ calls = << >>
        /\ commits = << >>
        /\ callbacks = << >>
        /\ thrown = FALSE
        /\ stack = << >>
        /\ last = Undefined
        /\ IF j = 0
           THEN /\ state = p.state
                /\ tmp = cacheState(p.state)
                /\ pc = "idle" /\ i = 0 /\ running = Undefined
           ELSE /\ state = Undefined
                /\ tmp = NoCache
                /\ pc = "onBeforeChange" /\ i = j /\ running = p.state

(***************************************************************************)
(* The host passes new props.                                              *)
(***************************************************************************)
componentWillReceiveProps(p) ==
  /\ pc = "idle"
  /\ Enter("componentWillReceiveProps", p.state, "")
  /\ commits' = << >>
  /\ callbacks' = << >>
  /\ pending' = Queued(p)
  /\ IF OnBeforeChangeReturnsEarly(p.state, state)
     THEN /\ state' = p.state
          /\ tmp' = cacheState(p.state)
          /\ props' = pending'.props
          /\ plugins' = pending'.plugins
          /\ schema' = pending'.schema
          /\ Return
     ELSE BeforeChain(p.state, 1)

\* A plugin's onBeforeChange returns a State or nothing.
BeforeHookReturns(newState) ==
  /\ pc = "onBeforeChange"
  /\ calls' = Append(calls, Called(i, "onBeforeChange", running, newState))
  /\ pending' = pending
  /\ BeforeChain(Thread(running, newState), i + 1)
  /\ UNCHANGED << op, commits, callbacks, thrown >>
  /\ NotNested

\* The states returned before the exception are kept (a `finally`).
BeforeHookThrowsKeepingPrefix ==
  /\ pc = "onBeforeChange"
  /\ calls' = Append(calls, Called(i, "onBeforeChange", running, Throw))
  /\ thrown' = TRUE
  /\ pc' = (IF op.name = "constructor" THEN "failed" ELSE "idle")
  /\ i' = 0
  /\ running' = Undefined
  /\ pending' = Current
  /\ state' = running
  /\ tmp' = cacheState(running)
  /\ UNCHANGED << props, plugins, schema, op, commits, callbacks >>
  /\ NotNested

\* A plugin's onBeforeChange throws: the exception leaves the constructor
\* (no component) or componentWillReceiveProps, whose update is abandoned.
BeforeHookThrows ==
  /\ pc = "onBeforeChange"
  /\ calls' = Append(calls, Called(i, "onBeforeChange", running, Throw))
  /\ thrown' = TRUE
  /\ pc' = (IF op.name = "constructor" THEN "failed" ELSE "idle")
  /\ i' = 0
  /\ running' = Undefined
  /\ pending' = Current
  /\ UNCHANGED << Component, op, commits, callbacks >>
  /\ NotNested

(***************************************************************************)
(* onChange, called by the content with a new State.                       *)
(***************************************************************************)
onChange(s) ==
  /\ pc = "idle"
  /\ Enter("onChange", s, "")
  /\ EnterOnChange(s)

\* A plugin's onChange returns a State or nothing.
ChangeHookReturns(newState) ==
  /\ pc = "onChange"
  /\ calls' = Append(calls, Called(i, "onChange", running, newState))
  /\ ChangeChain(Thread(running, newState), i + 1)
  /\ UNCHANGED << props, plugins, schema, state, pending, op, commits, thrown >>
  /\ NotNested

\* The host is notified of the states returned before the exception.
ChangeHookThrowsNotifying ==
  /\ pc = "onChange"
  /\ calls' = Append(calls, Called(i, "onChange", running, Throw))
  /\ thrown' = TRUE
  /\ callbacks' = Notifications(running, tmp)
  /\ tmp' = cacheState(running)
  /\ Return
  /\ UNCHANGED << props, plugins, schema, state, pending, op, commits >>
  /\ NotNested

\* A plugin's onChange throws.
ChangeHookThrows ==
  /\ pc = "onChange"
  /\ calls' = Append(calls, Called(i, "onChange", running, Throw))
  /\ thrown' = TRUE
  /\ Return
  /\ UNCHANGED << Component, pending, op, commits, callbacks >>
  /\ NotNested

(***************************************************************************)
(* The mixed-in event handlers.                                            *)
(***************************************************************************)
\* The loop of onEvent from position `from`: up to the call of the next
\* plugin's handler, or to the end of the loop.
EventLoop(name, from) ==
  LET j == NextWith(plugins, from, name)
  IN  /\ IF j = 0 THEN Return
         ELSE pc' = "handler" /\ i' = j /\ running' = Undefined
      /\ commits' = << >>
      /\ callbacks' = << >>
      /\ UNCHANGED << Component, pending >>

onEvent(name) ==
  /\ pc = "idle"
  /\ Enter("onEvent", Undefined, name)
  /\ EventLoop(name, 1)

\* A plugin's handler returns: nothing (the loop goes on) or a State
\* (onChange is called with it, and the loop is left).
HandlerReturns(newState) ==
  /\ pc = "handler"
  /\ calls' = Append(calls, Called(i, op.event, state, newState))
  /\ IF HandlerDeclines(newState)
     THEN EventLoop(op.event, i + 1)
     ELSE EnterOnChange(newState)
  /\ UNCHANGED << op, thrown >>
  /\ NotNested

(***************************************************************************)
(* focus and blur.                                                         *)
(***************************************************************************)
focus ==
  /\ pc = "idle"
  /\ \E s \in TransformApply(state) :
       Enter("focus", s, "") /\ EnterOnChange(s)

\* blur goes through onEvent, as a blur event of the content does.
blurThroughOnEvent ==
  /\ pc = "idle"
  /\ Enter("blur", Undefined, "onBlur")
  /\ EventLoop("onBlur", 1)

blur ==
  /\ pc = "idle"
  /\ \E s \in TransformApply(state) :
       Enter("blur", s, "") /\ EnterOnChange(s)

Next ==
  \/ \E p \in PropsSet : componentWillReceiveProps(p)
  \/ \E r \in Snapshots \cup {NoResult} : BeforeHookReturns(r)
  \/ BeforeHookThrows
  \/ \E s \in Snapshots : onChange(s)
  \/ \E r \in Snapshots \cup {NoResult} : ChangeHookReturns(r)
  \/ ChangeHookThrows
  \/ \E e \in Events : onEvent(e)
  \/ \E r \in Snapshots \cup {NoResult} : HandlerReturns(r)
  \/ focus
  \/ blur

Spec == Init /\ [][Next]_vars

(***************************************************************************)
(* Plugin functions and callbacks that call the editor.                    *)
(*                                                                         *)
(* Every plugin function is handed the editor (`this`), and the host's     *)
(* callbacks hold it: each may call onChange, an event handler, focus or   *)
(* blur before it returns.  The call is an ordinary synchronous call: the  *)
(* caller is suspended where it stands (stack) and goes on when the called *)
(* method has returned.  Here the callbacks of onChange are steps of their *)
(* own (pc = "props.onChange", "props.onDocumentChange",                   *)
(* "props.onSelectionChange"), each test of onChange is made when the code *)
(* reaches it, no function throws, and the editor is the one constructed   *)
(* with the plugins [A, B]; the logs of Spec are not kept.                 *)
(***************************************************************************)
NestedProps(s) == [plugins |-> 1, schema |-> 0, state |-> s]

\* The event whose handlers are called.
NestedEvent == "onBlur"

CallbackSteps ==
  {"props.onChange", "props.onDocumentChange", "props.onSelectionChange"}

\* A plugin function or a callback is executing.
InPluginCode == pc \in {"onChange", "handler"} \cup CallbackSteps

\* Where a caller stands: the function it is in, and onChange's local state.
Frame(p, k, run) == [pc |-> p, i |-> k, running |-> run]

\* The host, or the function being executed, may call the editor.
CanCall == pc = "idle" \/ (InPluginCode /\ Len(stack) < MaxDepth)

\* The suspended calls once the call is made.
Pushed == IF pc = "idle" THEN stack ELSE Append(stack, Frame(pc, i, running))

\* The method returns, to the host or to the function that called it.
ReturnTo(st) ==
  IF st = << >>
  THEN Return /\ stack' = << >>
  ELSE /\ pc' = st[Len(st)].pc
       /\ i' = st[Len(st)].i
       /\ running' = st[Len(st)].running
       /\ stack' = SubSeq(st, 1, Len(st) - 1)

LogsNotKept ==
  UNCHANGED << props, plugins, schema, pending, op, calls, commits, callbacks, thrown >>

\* The loop of onChange from position `from`, up to the call of the next
\* plugin's hook or, when no plugin is left, to the call of props.onChange.
NestedChangeChain(run, from, st) ==
  LET j == NextWith(plugins, from, "onChange")
  IN  /\ IF j = 0
         THEN pc' = "props.onChange" /\ i' = 0 /\ last' = run
         ELSE pc' = "onChange" /\ i' = j /\ last' = last
      /\ running' = run
      /\ stack' = st
      /\ tmp' = tmp

\* this.onChange(s) is called, with `st` suspended.
NestedEnterOnChange(s, st) ==
  IF OnChangeReturnsEarly(s, state)
  THEN ReturnTo(st) /\ tmp' = tmp /\ last' = last
  ELSE NestedChangeChain(s, 1, st)

\* The loop of onEvent from position `from`.
NestedEventLoop(from, st) ==
  LET j == NextWith(plugins, from, NestedEvent)
  IN  /\ IF j = 0
         THEN ReturnTo(st)
         ELSE pc' = "handler" /\ i' = j /\ running' = Undefined /\ stack' = st
      /\ tmp' = tmp
      /\ last' = last

\* Every commit but the outermost leaves the cache to the outermost one.
OnChangeEndsCachingOutermost ==
  /\ tmp' = (IF stack = << >> THEN cacheState(running) ELSE tmp)
  /\ ReturnTo(stack)
  /\ last' = last

\* The end of onChange: this.cacheState(state), and the return.
OnChangeEnds ==
  /\ tmp' = cacheState(running)
  /\ ReturnTo(stack)
  /\ last' = last

\* The next callback of onChange is called.
CallbackCalled(name) ==
  /\ pc' = name
  /\ UNCHANGED << i, running, stack, tmp, last >>

InitNested ==
  \E s \in Snapshots :
    LET pl == resolvePlugins(NestedProps(s))
    IN  /\ props = PropsRead(NestedProps(s))
        /\ plugins = pl
        /\ schema = resolveSchema(pl)
        /\ pending = [props |-> PropsRead(NestedProps(s)), plugins |-> pl,
                      schema |-> resolveSchema(pl)]
        /\ op = Method("constructor", s, "")
        /\ calls = << >>
        /\ commits = << >>
        /\ callbacks = << >>
        /\ thrown = FALSE
        /\ state = s
        /\ tmp = cacheState(s)
        /\ last = s
        /\ pc = "idle" /\ i = 0 /\ running = Undefined
        /\ stack = << >>

\* The host passes props with the same plugins and schema and the State s;
\* onBeforeChange returns r (s itself on its early return).
ReceiveState(s, r) ==
  /\ pc = "idle"
  /\ OnBeforeChangeReturnsEarly(s, state) => r = s
  /\ state' = r
  /\ tmp' = cacheState(r)
  /\ last' = r
  /\ UNCHANGED << pc, i, running, stack >>
  /\ LogsNotKept

\* onChange(s) is called by the content, a plugin function or a callback.
CallOnChange(s) ==
  /\ CanCall
  /\ NestedEnterOnChange(s, Pushed)
  /\ state' = state
  /\ LogsNotKept

\* An event handler is called by the content, a plugin function or a callback.
CallOnEvent ==
  /\ CanCall
  /\ NestedEventLoop(1, Pushed)
  /\ state' = state
  /\ LogsNotKept

\* focus() or blur() is called by the host, a plugin function or a callback.
CallFocusOrBlur ==
  /\ CanCall
  /\ \E s \in TransformApply(state) : NestedEnterOnChange(s, Pushed)
  /\ state' = state
  /\ LogsNotKept

\* A plugin's onChange returns a State or nothing.
NestedChangeHookReturns(newState) ==
  /\ pc = "onChange"
  /\ NestedChangeChain(Thread(running, newState), i + 1, stack)
  /\ state' = state
  /\ LogsNotKept

\* A plugin's handler returns.
NestedHandlerReturns(newState) ==
  /\ pc = "handler"
  /\ IF HandlerDeclines(newState)
     THEN NestedEventLoop(i + 1, stack)
     ELSE NestedEnterOnChange(newState, stack)
  /\ state' = state
  /\ LogsNotKept

\* props.onChange returns: the document is compared with the cache.
OnChangeCallbackReturns ==
  /\ pc = "props.onChange"
  /\ IF DocumentChanged(running, tmp)
     THEN CallbackCalled("props.onDocumentChange")
     ELSE IF SelectionChanged(running, tmp)
     THEN CallbackCalled("props.onSelectionChange")
     ELSE OnChangeEnds
  /\ state' = state
  /\ LogsNotKept

\* props.onDocumentChange returns: the selection is compared with the cache.
OnDocumentChangeReturns ==
  /\ pc = "props.onDocumentChange"
  /\ IF SelectionChanged(running, tmp)
     THEN CallbackCalled("props.onSelectionChange")
     ELSE OnChangeEnds
  /\ state' = state
  /\ LogsNotKept

\* props.onSelectionChange returns.
OnSelectionChangeReturns ==
  /\ pc = "props.onSelectionChange"
  /\ OnChangeEnds
  /\ state' = state
  /\ LogsNotKept

NextNested ==
  \/ \E s, r \in Snapshots : ReceiveState(s, r)
  \/ \E s \in Snapshots : CallOnChange(s)
  \/ CallOnEvent
  \/ CallFocusOrBlur
  \/ \E r \in Snapshots \cup {NoResult} : NestedChangeHookReturns(r)
  \/ \E r \in Snapshots \cup {NoResult} : NestedHandlerReturns(r)
  \/ OnChangeCallbackReturns
  \/ OnDocumentChangeReturns
  \/ OnSelectionChangeReturns

SpecNested == InitNested /\ [][NextNested]_vars

(***************************************************************************)
(* What the log of a method says.                                          *)
(***************************************************************************)
Last(s) == s[Len(s)]

\* The calls of the log made to a given plugin function.
CallsOf(hook) == SelectSeq(calls, LAMBDA c : c.hook = hook)

\* The callbacks of the log with a given name.
CallbacksNamed(name) == SelectSeq(callbacks, LAMBDA c : c.name = name)

\* The state a completed onChange ends with, read from the log: the last
\* State a hook returned, the state passed in when none returned one.
FinalCommitted ==
  LET returned == SelectSeq(CallsOf("onChange"), LAMBDA c : c.result # NoResult)
  IN  IF returned = << >> THEN commits[1] ELSE Last(returned).result

\* The log is that of an onChange that ran to its end: it was not called
\* with this.state.state (which no onChange assigns), and no hook threw.
CommitCompleted ==
  /\ pc = "idle"
  /\ ~thrown
  /\ commits # << >>
  /\ commits[1] # state

(***************************************************************************)
(* C1: a dispatch of event E calls the handlers for E in the order of the  *)
(* plugin list, passing over the plugins that have none, until one returns *)
(* a State: that State is passed to onChange and no later plugin's handler *)
(* is called; while no handler has returned a State, onChange is not       *)
(* called, no callback fires, and this.state.state and the cache stay.     *)
(***************************************************************************)
C1_DispatchLog ==
  op.name = "onEvent" =>
    LET hc       == CallsOf(op.event)
        n        == Len(hc)
        exposing == { k \in 1 .. Len(plugins) : op.event \in plugins[k].handlers }
        stopped  == n > 0 /\ hc[n].result \in Snapshots
        walked   == IF pc = "handler" THEN { k \in exposing : k < i }
                    ELSE IF stopped THEN { k \in exposing : k <= hc[n].plugin }
                    ELSE exposing
    IN  /\ \A a \in 1 .. n : hc[a].input = state
        /\ \A a, b \in 1 .. n : a < b => hc[a].plugin < hc[b].plugin
        /\ { hc[a].plugin : a \in 1 .. n } = walked
        /\ \A a \in 1 .. (n - 1) : hc[a].result = NoResult
        /\ IF stopped THEN commits = << hc[n].result >>
           ELSE commits = << >> /\ callbacks = << >>

C1_FirstHandlerWins ==
  [][ /\ C1_DispatchLog'
      /\ (op'.name = "onEvent" /\ commits' = << >>)
           => (state' = state /\ tmp' = tmp /\ callbacks' = << >>) ]_vars

\* The editor plugin declined, A has no onBlur and was passed over, B
\* returned a State that was committed, core was never called.
C1_Witness ==
  /\ op.name = "onEvent"
  /\ pc = "idle"
  /\ Len(plugins) = 4
  /\ Len(CallsOf(op.event)) = 2
  /\ CallsOf(op.event)[1].plugin = 1
  /\ CallsOf(op.event)[1].result = NoResult
  /\ CallsOf(op.event)[2].plugin = 3
  /\ CallsOf(op.event)[2].result \in Snapshots
  /\ op.event \in plugins[4].handlers
  /\ op.event \notin plugins[2].handlers
  /\ CommitCompleted

(***************************************************************************)
(* C2: when an onChange that is not the early return reaches the end of    *)
(* its loop with final state F, onDocumentChange is called, with           *)
(* (F.document, F), exactly when F.document is not the cached document,    *)
(* and onSelectionChange, with (F.selection, F), exactly when F.selection  *)
(* is not the cached selection.                                            *)
(***************************************************************************)
C2_DiffNotifications ==
  [][ CommitCompleted' =>
        LET F    == FinalCommitted'
            docs == CallbacksNamed("onDocumentChange")'
            sels == CallbacksNamed("onSelectionChange")'
        IN  /\ docs = IF DocOf(F) # tmp.document
                      THEN << Callback("onDocumentChange", <<DocOf(F), F>>) >>
                      ELSE << >>
            /\ sels = IF SelOf(F) # tmp.selection
                      THEN << Callback("onSelectionChange", <<SelOf(F), F>>) >>
                      ELSE << >> ]_vars

\* A commit whose final state holds another document than the cached one and
\* the cached selection, and whose document is the one of this.state.state:
\* onDocumentChange fired, onSelectionChange did not.
C2_Witness ==
  /\ CommitCompleted
  /\ Len(CallbacksNamed("onDocumentChange")) = 1
  /\ CallbacksNamed("onSelectionChange") = << >>
  /\ DocOf(FinalCommitted) = DocOf(state)
  /\ FinalCommitted # state

(***************************************************************************)
(* C3: onChange(s) with s the instance in this.state.state returns at      *)
(* once: no plugin's onChange hook is called, no callback fires, and the   *)
(* cache is left as it was.                                                *)
(***************************************************************************)
C3_CommitOfCurrentIsNoop ==
  [][ (pc \in {"idle", "handler"} /\ commits' # << >> /\ commits'[1] = state) =>
        /\ pc' = "idle"
        /\ CallsOf("onChange")' = << >>
        /\ callbacks' = << >>
        /\ tmp' = tmp
        /\ state' = state ]_vars

\* onChange was called with this.state.state while the plugin list holds
\* plugins with an onChange hook and the cache holds another document.
C3_Witness ==
  /\ pc = "idle"
  /\ op.name = "onChange"
  /\ op.arg = state
  /\ commits = <<state>>
  /\ calls = << >>
  /\ callbacks = << >>
  /\ \E k \in 1 .. Len(plugins) : plugins[k].onChange
  /\ tmp.document # DocOf(state)

(***************************************************************************)
(* C4 as stated: componentWillReceiveProps with props.state the instance   *)
(* in this.state.state calls no onBeforeChange hook and leaves             *)
(* this.state.state and the cached document and selection as they were.    *)
(***************************************************************************)
C4_AcceptOfCurrentKeepsCache ==
  [][ (pc = "idle" /\ op'.name = "componentWillReceiveProps" /\ op'.arg = state) =>
        /\ pc' = "idle"
        /\ calls' = << >>
        /\ state' = state
        /\ tmp' = tmp ]_vars

(***************************************************************************)
(* C4 amended: componentWillReceiveProps with props.state the instance in  *)
(* this.state.state calls no onBeforeChange hook and leaves                *)
(* this.state.state, and sets the cache to the document and selection of   *)
(* that state.                                                             *)
(***************************************************************************)
C4_AcceptOfCurrentResetsCache ==
  [][ (pc = "idle" /\ op'.name = "componentWillReceiveProps" /\ op'.arg = state) =>
        /\ pc' = "idle"
        /\ calls' = << >>
        /\ state' = state
        /\ tmp' = [document |-> DocOf(state), selection |-> SelOf(state)] ]_vars

\* The props carried this.state.state again, with plugins in the list that
\* have an onBeforeChange hook.
C4_Witness ==
  /\ pc = "idle"
  /\ op.name = "componentWillReceiveProps"
  /\ op.arg = state
  /\ calls = << >>
  /\ ~thrown
  /\ \E k \in 1 .. Len(plugins) : plugins[k].onBeforeChange

(***************************************************************************)
(* C5: when a plugin's onBeforeChange throws in componentWillReceiveProps, *)
(* the method ends with that exception, and this.state.state and the cache *)
(* are what they were when it was called: no step of the method before the *)
(* end of the chain changes them.                                          *)
(***************************************************************************)
C5_BeforeHookFailureKeepsState ==
  [][ op'.name = "componentWillReceiveProps" =>
        /\ (calls' # << >> /\ Last(calls').result = Throw)
             => (thrown' /\ pc' = "idle")
        /\ (thrown' \/ pc' # "idle") => (state' = state /\ tmp' = tmp) ]_vars

\* The first hook returned a State other than the one passed in and the
\* second one threw: the State the first returned was not applied.
C5_Witness ==
  /\ pc = "idle"
  /\ op.name = "componentWillReceiveProps"
  /\ thrown
  /\ Len(calls) = 2
  /\ calls[1].result \in Snapshots
  /\ calls[1].result # state
  /\ tmp # cacheState(calls[1].result)
  /\ calls[2].result = Throw

(***************************************************************************)
(* C6: when a plugin's onChange throws (onChange called by the content, by *)
(* a dispatch, by focus or by blur), the method ends with that exception,  *)
(* none of the three callbacks has been called, and this.state.state and   *)
(* the cache are what they were when the method was called.                *)
(***************************************************************************)
C6_ChangeHookFailureKeepsState ==
  [][ op'.name \in {"onChange", "onEvent", "focus", "blur"} =>
        /\ (calls' # << >> /\ Last(calls').result = Throw)
             => (thrown' /\ pc' = "idle")
        /\ (thrown' \/ pc' # "idle")
             => (state' = state /\ tmp' = tmp /\ callbacks' = << >>) ]_vars

\* In a dispatch, the first onChange hook returned a State and the second
\* one threw.
C6_Witness ==
  /\ pc = "idle"
  /\ op.name = "onEvent"
  /\ thrown
  /\ Len(CallsOf("onChange")) = 2
  /\ CallsOf("onChange")[1].result \in Snapshots
  /\ tmp # cacheState(CallsOf("onChange")[1].result)
  /\ callbacks = << >>

(***************************************************************************)
(* C7: this.state.plugins is always [the editor plugin, the plugins of     *)
(* this.props.plugins in their order, the core plugin]; it changes only in *)
(* a componentWillReceiveProps whose props.plugins is another reference,   *)
(* so an update of the schema alone leaves the list, its members and their *)
(* order as they were.                                                     *)
(***************************************************************************)
C7_ListShape ==
  LET given == PluginsArray(props.plugins)
  IN  /\ Len(plugins) = Len(given) + 2
      /\ plugins[1].name = "editor"
      /\ plugins[Len(plugins)].name = "core"
      /\ \A k \in 1 .. Len(given) : plugins[k + 1] = given[k]

C7_PluginListOrder ==
  [][ /\ C7_ListShape'
      /\ props'.plugins = props.plugins => plugins' = plugins
      /\ plugins' # plugins => op'.name = "componentWillReceiveProps" ]_vars

\* After an update that changed the schema object alone: the list holds
\* the user's two plugins between the editor plugin and the core plugin,
\* and its editor plugin is still the one made from the former props.
C7_Witness ==
  /\ pc = "idle"
  /\ op.name = "componentWillReceiveProps"
  /\ ~thrown
  /\ Len(plugins) = 4
  /\ plugins[2].name = "A"
  /\ plugins[3].name = "B"
  /\ plugins[1].schema # SchemaObject(props.schema)

(***************************************************************************)
(* C8: the rules of this.state.schema are the expanded rules of the        *)
(* plugins of this.state.plugins that declare a schema, plugin after       *)
(* plugin in the order of the list, each at the offset that the rules of   *)
(* the plugins before it take: nothing is dropped, merged or reordered,    *)
(* and a plugin without a schema takes no place.                           *)
(***************************************************************************)
Expanded(k) ==
  IF plugins[k].hasSchema
  THEN plugins[k].schema.rules \o
       [j \in 1 .. Len(plugins[k].schema.nodes) |-> 100 + plugins[k].schema.nodes[j]]
  ELSE << >>

RECURSIVE Offset(_)
Offset(k) == IF k <= 1 THEN 0 ELSE Offset(k - 1) + Len(Expanded(k - 1))

C8_SchemaIsConcatenation ==
  /\ Len(schema.rules) = Offset(Len(plugins) + 1)
  /\ \A k \in 1 .. Len(plugins) :
       \A j \in 1 .. Len(Expanded(k)) :
         schema.rules[Offset(k) + j] = Expanded(k)[j]

\* A = [rule 1], B declares no schema, core = [rule 2], and the editor
\* plugin's schema object holds rule 1 as well: the schema is [1, 1, 2].
C8_Witness ==
  /\ pc = "idle"
  /\ Len(plugins) = 4
  /\ plugins[2].name = "A"
  /\ ~plugins[3].hasSchema
  /\ Expanded(1) = <<1>>
  /\ Expanded(2) = <<1>>
  /\ Expanded(4) = <<2>>
  /\ schema.rules = <<1, 1, 2>>

(***************************************************************************)
(* C9 as stated: after any update, also one that changes props.schema      *)
(* alone, the rules of getSchema() are those of the plugins of the current *)
(* props together with the schema object of the current props.             *)
(***************************************************************************)
C9_SchemaFollowsProps ==
  pc = "idle" => schema.rules = resolveSchema(resolvePlugins(props)).rules

(***************************************************************************)
(* C10: a componentWillReceiveProps whose props.state is not the instance  *)
(* in this.state.state, and the constructor, call the onBeforeChange of    *)
(* every plugin of the list that has one, once each, in the order of the   *)
(* list: the first with the state passed in, each next one with the State  *)
(* the one before returned, or with the same state when it returned        *)
(* nothing.  At the end of the chain that state is this.state.state and    *)
(* the cache holds its document and its selection.  The list is the one    *)
(* this.state.plugins holds while the chain runs.                          *)
(***************************************************************************)
C10_BeforeChain ==
  [][ ( /\ op'.name \in {"constructor", "componentWillReceiveProps"}
        /\ pc' = "idle"
        /\ ~thrown'
        /\ op'.arg # state ) =>
        LET hooks == { k \in 1 .. Len(plugins) : plugins[k].onBeforeChange }
            n     == Len(calls')
            out(a) == IF calls'[a].result = NoResult
                      THEN calls'[a].input ELSE calls'[a].result
        IN  /\ n = Cardinality(hooks)
            /\ { calls'[a].plugin : a \in 1 .. n } = hooks
            /\ \A a, b \in 1 .. n : a < b => calls'[a].plugin < calls'[b].plugin
            /\ \A a \in 1 .. n : calls'[a].hook = "onBeforeChange"
            /\ n > 0 => calls'[1].input = op'.arg
            /\ \A a \in 1 .. (n - 1) : calls'[a + 1].input = out(a)
            /\ state' = (IF n = 0 THEN op'.arg ELSE out(n))
            /\ tmp' = [document |-> DocOf(state'), selection |-> SelOf(state')] ]_vars

\* B's hook returned another State than the one passed in, core's hook was
\* called with that State and returned nothing: it is this.state.state.
C10_Witness ==
  /\ pc = "idle"
  /\ op.name = "componentWillReceiveProps"
  /\ ~thrown
  /\ Len(calls) = 2
  /\ calls[1].plugin = 3
  /\ calls[1].input = op.arg
  /\ calls[1].result \in Snapshots
  /\ calls[1].result # op.arg
  /\ calls[2].plugin = 4
  /\ calls[2].input = calls[1].result
  /\ calls[2].result = NoResult
  /\ state = calls[1].result
  /\ tmp = cacheState(state)

(***************************************************************************)
(* C11: in an onChange that is not the early return, the onChange hooks of *)
(* the plugins are called first, in the order of the list, each at most    *)
(* once, each with the state the ones before it left; no callback is       *)
(* called while the loop runs, and the editor plugin, which holds no       *)
(* onChange, is not a member of the chain.  Then props.onChange is called  *)
(* exactly once, with the final state, before onDocumentChange, which      *)
(* comes before onSelectionChange; and at the end the cache holds the      *)
(* document and the selection of the final state.                          *)
(***************************************************************************)
Rank(name) ==
  CASE name = "onChange" -> 1
    [] name = "onDocumentChange" -> 2
    [] name = "onSelectionChange" -> 3
    [] OTHER -> 4

C11_CommitOrder ==
  LET hc == CallsOf("onChange")
      n  == Len(hc)
      out(a) == IF hc[a].result = NoResult THEN hc[a].input ELSE hc[a].result
  IN  /\ pc # "idle" => callbacks = << >>
      /\ \A a \in 1 .. n : plugins[hc[a].plugin].name # "editor"
      /\ \A a, b \in 1 .. n : a < b => hc[a].plugin < hc[b].plugin
      /\ n > 0 => hc[1].input = commits[1]
      /\ \A a \in 1 .. (n - 1) : hc[a].result # Throw /\ hc[a + 1].input = out(a)
      /\ CommitCompleted =>
           /\ { hc[a].plugin : a \in 1 .. n } =
                { k \in 1 .. Len(plugins) : plugins[k].onChange }
           /\ callbacks[1] = Callback("onChange", << FinalCommitted >>)
           /\ Len(CallbacksNamed("onChange")) = 1
           /\ \A a, b \in 1 .. Len(callbacks) :
                a < b => Rank(callbacks[a].name) < Rank(callbacks[b].name)
           /\ \A a \in 1 .. Len(callbacks) : Rank(callbacks[a].name) <= 3
           /\ tmp = [document |-> DocOf(FinalCommitted),
                     selection |-> SelOf(FinalCommitted)]

\* Both hooks ran, B's with the State that A's returned, and all three
\* callbacks were called.
C11_Witness ==
  /\ CommitCompleted
  /\ Len(CallsOf("onChange")) = 2
  /\ CallsOf("onChange")[1].result \in Snapshots
  /\ CallsOf("onChange")[1].result # commits[1]
  /\ CallsOf("onChange")[2].input = CallsOf("onChange")[1].result
  /\ Len(callbacks) = 3

C14_FocusBlurBypassOnEvent ==
  op.name \in {"focus", "blur"} =>
    /\ op.event = ""
    /\ pc \in {"idle", "onChange"}
    /\ commits = << op.arg >>
    /\ op.arg \in Snapshots
    /\ op.arg # state
    /\ DocOf(op.arg) = DocOf(state)
    /\ \A k \in 1 .. Len(calls) : calls[k].hook = "onChange"
    /\ \A k \in 1 .. Len(callbacks) : Rank(callbacks[k].name) <= 3

\* blur completed in an editor whose plugin list holds a plugin with an
\* onBlur handler (B), and both onChange hooks were called.
C14_Witness ==
  /\ op.name = "blur"
  /\ CommitCompleted
  /\ \E k \in 1 .. Len(plugins) : plugins[k].name = "B" /\ "onBlur" \in plugins[k].handlers
  /\ Len(calls) = 2

(***************************************************************************)
(* C16: onChange does not assign this.state.state.  Through every step of  *)
(* onChange, onEvent, focus and blur, getState() keeps returning the State *)
(* that the constructor or componentWillReceiveProps left; every handler   *)
(* of an onEvent is handed that State; and an onChange of a State other    *)
(* than that one is never the early return, so that when its hooks         *)
(* complete props.onChange is called, also when the cache already holds    *)
(* the document and selection of that State from an earlier onChange.      *)
(***************************************************************************)
getState == state

C16_HandlersGetState ==
  op.name = "onEvent" =>
    \A k \in 1 .. Len(calls) :
      calls[k].hook = op.event => calls[k].input = getState

C16_OnChangeKeepsState ==
  [][ op'.name \in {"onChange", "onEvent", "focus", "blur"} =>
        /\ state' = state
        /\ C16_HandlersGetState'
        /\ CommitCompleted' =>
             /\ callbacks' # << >>
             /\ callbacks'[1] = Callback("onChange", << FinalCommitted' >>) ]_vars

\* A State other than this.state.state is committed while the cache already
\* holds its document and its selection, as an earlier onChange of it left
\* them, with no plugin hook in between: props.onChange is called again,
\* and nothing else.
C16_Witness ==
  /\ op.name = "onChange"
  /\ CommitCompleted
  /\ calls = << >>
  /\ callbacks = << Callback("onChange", << commits[1] >>) >>
  /\ getState # commits[1]

(***************************************************************************)
(* C17: in onEvent, a handler that returns this.state.state itself ends    *)
(* the loop like any other State: onChange is called with it and returns   *)
(* at once, so that the step ends onEvent with no further handler called,  *)
(* no onChange hook called, no callback called and the cache as it was.    *)
(***************************************************************************)
C17_CurrentStateEndsLoop ==
  [][ (pc = "handler" /\ calls' # calls /\ Last(calls').result = state) =>
        /\ calls' = Append(calls, Called(i, op.event, state, state))
        /\ pc' = "idle"
        /\ commits' = << state >>
        /\ callbacks' = << >>
        /\ tmp' = tmp
        /\ state' = state ]_vars

\* The first handler returned this.state.state and onEvent is over, while a
\* later plugin of the list holds a handler for the event.
C17_Witness ==
  /\ op.name = "onEvent"
  /\ pc = "idle"
  /\ Len(calls) = 1
  /\ calls[1].result = state
  /\ commits = << state >>
  /\ \E k \in (calls[1].plugin + 1) .. Len(plugins) : op.event \in plugins[k].handlers

(***************************************************************************)
(* C18: when componentWillReceiveProps is given a new plugins array and a  *)
(* State that is not this.state.state, the onBeforeChange hooks called are *)
(* those of the plugin list resolved from the new props, in its order.     *)
(* (Stated for every completed componentWillReceiveProps that called a     *)
(* hook: with the plugins array unchanged the list is the same before and  *)
(* after.)  The code does not do this: onBeforeChange reads                *)
(* this.state.plugins, which the queued setState has not replaced yet.     *)
(***************************************************************************)
HooksOf(pl) == { k \in 1 .. Len(pl) : pl[k].onBeforeChange }

C18_BeforeChainWalksNewList ==
  (/\ op.name = "componentWillReceiveProps"
   /\ pc = "idle"
   /\ ~thrown
   /\ calls # << >>) =>
     { calls[k].plugin : k \in 1 .. Len(calls) } = HooksOf(resolvePlugins(props))

(***************************************************************************)
(* C12: a call of onChange, an event handler, focus or blur made by a      *)
(* plugin function or a callback suspends the caller where it stands, and  *)
(* the caller goes on only when the called method has returned: after the  *)
(* loop, the callbacks and the cacheState of its onChange, or on one of    *)
(* the returns that commit nothing (no handler returned a State, or the    *)
(* State was this.state.state), which leave the cache alone.  Whenever a   *)
(* plugin function or a callback starts or goes on, the cache holds the    *)
(* document and the selection of one State: cacheState writes both, and    *)
(* nothing runs between its two assignments.                               *)
(***************************************************************************)
CacheOf(s) == [document |-> DocOf(s), selection |-> SelOf(s)]

C12_NestedCallCompletes ==
  [][ /\ \E s \in Snapshots : tmp' = CacheOf(s)
      /\ tmp' # tmp =>
           \/ pc \in CallbackSteps /\ tmp' = CacheOf(running)
           \/ pc = "idle" /\ tmp' = CacheOf(state')
      /\ stack' # << >> => pc' # "idle"
      /\ \/ stack' = stack
         \/ /\ InPluginCode
            /\ stack' = Append(stack, Frame(pc, i, running))
            /\ tmp' = tmp
         \/ /\ stack # << >>
            /\ stack' = SubSeq(stack, 1, Len(stack) - 1)
            /\ Frame(pc', i', running') = stack[Len(stack)]
            /\ \/ pc \in CallbackSteps /\ tmp' = CacheOf(running)
               \/ pc = "handler" /\ tmp' = tmp ]_vars

\* An onChange hook called onChange and is suspended; the called onChange
\* has run its loop and its callbacks down to the last one, and the cache is
\* not yet that of its final State.
C12_Witness ==
  /\ Len(stack) = 1
  /\ stack[1].pc = "onChange"
  /\ pc = "props.onSelectionChange"
  /\ running # stack[1].running
  /\ tmp # CacheOf(running)

(***************************************************************************)
(* C15: whenever no method of the editor is executing, the cache holds the *)
(* document and the selection of the State last passed to props.onChange   *)
(* or last kept by the constructor or componentWillReceiveProps, whichever *)
(* came last.  The code does not keep this when a callback calls onChange: *)
(* the called onChange passes its State to props.onChange and caches it,   *)
(* and the suspended onChange then caches its own, older one.              *)
(***************************************************************************)
C15_CacheIsLastDelivered ==
  pc = "idle" => tmp = CacheOf(last)

====
